---- MODULE Spec2Model ----
(***************************************************************************)
(* Board generation and key codec of the minesweeper server               *)
(* (src/server/internals/datatypes/board.py, cell.py).                     *)
(*                                                                         *)
(* Strings are sequences of one-character strings.  Indices of the source  *)
(* are 0-based; a sequence position is the source index plus one.          *)
(* Probabilities and the values of random() are counted in halves:         *)
(* random() is 0 or 1 (0.0, 0.5) and probability is 0, 1 or 2 (0.0, 0.5,   *)
(* 1.0).                                                                   *)
(***************************************************************************)
EXTENDS Integers, Sequences, FiniteSets, TLC

\* Largest width*height of a constructed board.
MaxCells == 9
\* Longest key handed to Reconstruct mode.
MaxKeyLen == 3
\* Longest bit string handed to the codec alone.
MaxBits == 8
\* Largest side of the grids countAdjacent is called on with a pattern bitmap.
MaxSide == 4
\* Largest width*height of a board reconstructed from a key written with the
\* characters of an integer literal (sign, prefix, underscore, blank).
MaxLiteralCells == 4
\* Largest side of the boards two threads generate at the same time.
MaxSharedSide == 2
\* Longest key of a stored game that is reloaded while a thread generates.
MaxStoredKeyLen == 2
\* Largest width*height of the board that thread generates.
MaxBackgroundCells == 4
\* Most rows a Tokens object is constructed from.
MaxTokens == 3
\* Frames the interpreter allows on the call stack (sys.getrecursionlimit(),
\* 1000 by default) before a call raises RecursionError.
MaxFrames == 6
\* Longest run of one character a password starts with.
MaxPasswordFill == 6
\* Most characters of any kind after that run.
MaxPasswordTail == 3

VARIABLES
    pc,      \* "start", "drawing", "constructed", "raised"
    args,    \* arguments of the running or last Board(...) call
    draws,   \* values random() returned to the running _gen, in order
    board,   \* the Board object of the last call (EmptyBoard before it returns)
    raised,  \* message of the exception the last call raised, "" for none
    first,   \* the call and Board whose (width, height, key) was reconstructed
    call,    \* a direct call of countAdjacent or of the codec, with its result
    cursor,  \* how many values the generator behind random() has handed out
    callers, \* the Board(...) calls of the threads that generate concurrently
    tokens,  \* a Tokens object: whether it is constructed, and the list it is
    frames   \* the Python call stack of the running Tokens method, outermost first

vars == <<pc, args, draws, board, raised, first, call, cursor, callers, tokens, frames>>

(***************************************************************************)
(* Characters and the integer conversions of Python.                       *)
(***************************************************************************)
HexDigits == <<"0", "1", "2", "3", "4", "5", "6", "7",
               "8", "9", "a", "b", "c", "d", "e", "f">>

\* Lower that leaves every character as it is.
LowerAsIs(c) == c

Lower(c) ==
    CASE c = "A" -> "a" [] c = "B" -> "b" [] c = "C" -> "c"
      [] c = "D" -> "d" [] c = "E" -> "e" [] c = "F" -> "f"
      [] OTHER -> c

\* Value of a digit character, -1 when it is none.
DigitValue(c) ==
    IF \E v \in 1..16 : HexDigits[v] = Lower(c)
    THEN (CHOOSE v \in 1..16 : HexDigits[v] = Lower(c)) - 1
    ELSE -1

IsDigit(c, base) == DigitValue(c) \in 0..(base - 1)

RECURSIVE LStrip(_)
LStrip(s) == IF s # <<>> /\ Head(s) = " " THEN LStrip(Tail(s)) ELSE s

RECURSIVE RStrip(_)
RStrip(s) ==
    IF s # <<>> /\ s[Len(s)] = " " THEN RStrip(SubSeq(s, 1, Len(s) - 1)) ELSE s

HasSign(t) == t # <<>> /\ Head(t) \in {"+", "-"}

HasPrefix(u, base) ==
    /\ Len(u) >= 2
    /\ u[1] = "0"
    /\ u[2] \in (IF base = 16 THEN {"x", "X"} ELSE {"b", "B"})

\* The digits of a literal without its sign: what follows the base prefix
\* and the one underscore that may follow the prefix.
Body(u, base) ==
    IF ~HasPrefix(u, base) THEN u
    ELSE IF Len(u) >= 3 /\ u[3] = "_" THEN SubSeq(u, 4, Len(u))
    ELSE SubSeq(u, 3, Len(u))

\* Digits of the base, with single underscores between digits only.
WellFormed(body, base) ==
    /\ body # <<>>
    /\ IsDigit(body[1], base)
    /\ IsDigit(body[Len(body)], base)
    /\ \A i \in 1..Len(body) : body[i] = "_" \/ IsDigit(body[i], base)
    /\ \A i \in 1..(Len(body) - 1) : ~(body[i] = "_" /\ body[i + 1] = "_")

RECURSIVE DigitsValue(_, _, _)
DigitsValue(s, base, acc) ==
    IF s = <<>> THEN acc
    ELSE IF Head(s) = "_" THEN DigitsValue(Tail(s), base, acc)
    ELSE DigitsValue(Tail(s), base, acc * base + DigitValue(Head(s)))

ParseBody(body, base, negative) ==
    IF ~WellFormed(body, base) THEN [ok |-> FALSE, val |-> 0]
    ELSE IF negative THEN [ok |-> TRUE, val |-> 0 - DigitsValue(body, base, 0)]
    ELSE [ok |-> TRUE, val |-> DigitsValue(body, base, 0)]

ParseStripped(t, base) ==
    IF HasSign(t)
    THEN ParseBody(Body(Tail(t), base), base, Head(t) = "-")
    ELSE ParseBody(Body(t, base), base, FALSE)

\* int(s, base) for base 2 or 16: surrounding blanks, one sign, the base's
\* 0x / 0b prefix and single underscores between digits are accepted.
\* ok is FALSE where int raises ValueError.
PyInt(s, base) == ParseStripped(RStrip(LStrip(s)), base)

RECURSIVE ToBase(_, _)
ToBase(n, base) ==
    IF n < base THEN <<HexDigits[n + 1]>>
    ELSE ToBase(n \div base, base) \o <<HexDigits[(n % base) + 1]>>

\* bin(n)[2:]: the slice drops "0b", and of "-0b..." it drops "-0".
BinStr(n) == IF n >= 0 THEN ToBase(n, 2) ELSE <<"b">> \o ToBase(0 - n, 2)

\* HexStr without the slice: the 0x prefix stays.
HexStrPrefixed(n) == <<"0", "x">> \o ToBase(n, 16)

\* hex(n)[2:] likewise.
HexStr(n) == IF n >= 0 THEN ToBase(n, 16) ELSE <<"x">> \o ToBase(0 - n, 16)

Zeros(k) == [i \in 1..k |-> "0"]

(***************************************************************************)
(* decision and countAdjacent.                                             *)
(***************************************************************************)
\* RandomValues with the value 1.0, which random() never returns.
RandomValuesClosed == {0, 1, 2}

\* The values random() can return and the probabilities a caller can pass.
RandomValues == {0, 1}
Probabilities == {0, 1, 2}

\* decision with <= for <.
decisionInclusive(probability, r) == r <= probability

\* decision(probability), for the value r that random() returned.
decision(probability, r) == r < probability

\* Result of a call: the exception message, or "" and the value returned.
Raise(msg) == [raised |-> msg, value |-> 0]
Return(v) == [raised |-> "", value |-> v]

\* The candidate lists of the nine position classes, in the source's order.
TopLeft(width, index) == <<1, width, width + 1>>

TopRight(width, index) == <<width - 2, 2 * width - 1, 2 * width - 2>>

BottomLeft(width, index) ==
    <<width * (width - 2), width * (width - 1) + 1, width * (width - 2) + 1>>

\* BottomRight with the cell itself for its top-left neighbour.
BottomRightSelf(width, index) ==
    <<width * width - 2, width * width - width - 1, width * width>>

BottomRight(width, index) ==
    <<width * width - 2, width * width - width - 1, width * width - width - 2>>

\* TopEdge with the bottom-right neighbour one column too far.
TopEdgeShifted(width, index) ==
    <<index - 1, index + 1, index + width, index + width - 1, index + width + 2>>

TopEdge(width, index) ==
    <<index - 1, index + 1, index + width, index + width - 1, index + width + 1>>

\* LeftEdge with a neighbour up and to the left, which wraps to the row above.
LeftEdgeWrapped(width, index) ==
    <<index - width, index - width - 1, index + 1, index + width, index + width + 1>>

LeftEdge(width, index) ==
    <<index - width, index - width + 1, index + 1, index + width, index + width + 1>>

\* RightEdge with the top-left neighbour taken on the wrong side.
RightEdgeSwapped(width, index) ==
    <<index - width, index - width + 1, index - 1, index + width, index + width - 1>>

RightEdge(width, index) ==
    <<index - width, index - width - 1, index - 1, index + width, index + width - 1>>

BottomEdge(width, index) ==
    <<index - 1, index + 1, index - width, index - width - 1, index - width + 1>>

\* Interior without its bottom-right neighbour.
InteriorMissing(width, index) ==
    <<index - 1, index + 1, index - width, index + width,
      index - width - 1, index - width + 1, index + width - 1>>

Interior(width, index) ==
    <<index - 1, index + 1, index - width, index + width,
      index - width - 1, index - width + 1, index + width - 1, index + width + 1>>

\* fetchIndex as the if/elif chain builds it.
FetchIndex(width, index) ==
    IF index = 0 THEN TopLeft(width, index)
    ELSE IF index = width - 1 THEN TopRight(width, index)
    ELSE IF index = width * (width - 1) THEN BottomLeft(width, index)
    ELSE IF index = width * width - 1 THEN BottomRight(width, index)
    ELSE IF index < width THEN TopEdge(width, index)
    ELSE IF index % width = 0 THEN LeftEdge(width, index)
    ELSE IF index % width = width - 1 THEN RightEdge(width, index)
    ELSE IF index > width * (width - 1) THEN BottomEdge(width, index)
    ELSE Interior(width, index)

\* list.sort(): insertion of each element into the sorted rest.
RECURSIVE Insert(_, _)
Insert(x, s) ==
    IF s = <<>> THEN <<x>>
    ELSE IF x <= Head(s) THEN <<x>> \o s
    ELSE <<Head(s)>> \o Insert(x, Tail(s))

RECURSIVE Sort(_)
Sort(s) == IF s = <<>> THEN <<>> ELSE Insert(Head(s), Sort(Tail(s)))

\* The counting loop over the sorted candidates.
RECURSIVE CountMines(_, _)
CountMines(cellBinary, fetchIndex) ==
    IF fetchIndex = <<>> THEN 0
    ELSE (IF cellBinary[Head(fetchIndex) + 1] THEN 1 ELSE 0)
         + CountMines(cellBinary, Tail(fetchIndex))

\* CheckAndCount without the check for duplicates.
CheckAndCountNoDuplicates(cellBinary, fetchIndex) ==
    IF \E k \in 1..Len(fetchIndex) : fetchIndex[k] < 0
    THEN Raise("Negative index found")
    ELSE IF \E k \in 1..Len(fetchIndex) : fetchIndex[k] >= Len(cellBinary)
    THEN Raise("Index out of bounds")
    ELSE Return(CountMines(cellBinary, Sort(fetchIndex)))

\* The checks of the candidate list, then the count.
CheckAndCount(cellBinary, fetchIndex) ==
    IF \E k \in 1..Len(fetchIndex) : fetchIndex[k] < 0
    THEN Raise("Negative index found")
    ELSE IF \E k \in 1..Len(fetchIndex) : fetchIndex[k] >= Len(cellBinary)
    THEN Raise("Index out of bounds")
    ELSE IF Len(fetchIndex) # Cardinality({fetchIndex[k] : k \in 1..Len(fetchIndex)})
    THEN Raise("Duplicate indices found")
    ELSE Return(CountMines(cellBinary, Sort(fetchIndex)))

\* countAdjacent without the check of the rectangle.
countAdjacentNoRectangle(cellBinary, width, index) ==
    IF index < 0 \/ index >= Len(cellBinary)
    THEN Raise("Index out of bounds")
    ELSE CheckAndCount(cellBinary, FetchIndex(width, index))

countAdjacent(cellBinary, width, index) ==
    IF index < 0 \/ index >= Len(cellBinary)
    THEN Raise("Index out of bounds")
    ELSE IF Len(cellBinary) % width # 0
    THEN Raise("List does not form a rectangle")
    ELSE CheckAndCount(cellBinary, FetchIndex(width, index))

(***************************************************************************)
(* Cell, the key codec and Board.                                          *)
(***************************************************************************)
\* Cell with revealed taken from mine.
CellRevealed(mine, adjacentMines) ==
    [mine |-> mine, adjacentMines |-> adjacentMines,
     revealed |-> mine, flagged |-> FALSE]

Cell(mine, adjacentMines) ==
    [mine |-> mine, adjacentMines |-> adjacentMines,
     revealed |-> FALSE, flagged |-> FALSE]

verifyKey(key, cellCount) ==
    IF Len(key) < cellCount \div 4
    THEN Zeros(cellCount \div 4 - Len(key)) \o key
    ELSE key

\* The encoding of _gen: the bit string as a number, in hex, then _verifyKey.
Encode(bits) == verifyKey(HexStr(PyInt(bits, 2).val), Len(bits))

\* PadBits without the padding.
PadBitsNone(bits, cellCount) == bits

\* The padding of Board.__init__: zeros on the left of a bit string shorter
\* than the board.
PadBits(bits, cellCount) ==
    IF Len(bits) < cellCount THEN Zeros(cellCount - Len(bits)) \o bits ELSE bits

\* The decoding of Board.__init__: the key as a number, in binary, padded.
Decode(key, cellCount) == PadBits(BinStr(PyInt(key, 16).val), cellCount)

NoneKey == <<"None">>

EmptyBoard ==
    [probability |-> 0, width |-> 0, height |-> 0,
     boardKey |-> <<>>, boardBits |-> <<>>, cells |-> <<>>]

\* The comprehension [Cell(mine(i), countAdjacent(cellBinary, width, i)) ...],
\* continued after the cells built so far: the exception of the first index
\* that raises, else the cells.
RECURSIVE BuildCells(_, _, _, _, _)
RECURSIVE BuildCell(_, _, _, _, _, _)
BuildCell(mines, cellBinary, width, numCells, cells, count) ==
    IF count.raised # ""
    THEN [raised |-> count.raised, cells |-> <<>>]
    ELSE BuildCells(mines, cellBinary, width, numCells,
                    Append(cells, Cell(mines[Len(cells) + 1], count.value)))

BuildCells(mines, cellBinary, width, numCells, cells) ==
    IF Len(cells) >= numCells
    THEN [raised |-> "", cells |-> cells]
    ELSE BuildCell(mines, cellBinary, width, numCells, cells,
                   countAdjacent(cellBinary, width, Len(cells)))

\* What the constructor leaves: the exception, or the Board with its fields.
Constructed(probability, width, height, boardKey, boardBits, built) ==
    IF built.raised # ""
    THEN [raised |-> built.raised, board |-> EmptyBoard]
    ELSE [raised |-> "",
          board |-> [probability |-> probability, width |-> width,
                     height |-> height, boardKey |-> boardKey,
                     boardBits |-> boardBits, cells |-> built.cells]]

\* MineFlags read from the last numCells characters of boardBits.
MineFlagsFromEnd(boardBits, numCells) ==
    [i \in 1..numCells |-> boardBits[Len(boardBits) - numCells + i] = "1"]

\* self.boardBits[i] == "1" for i in range(width * height).
MineFlags(boardBits, numCells) == [i \in 1..numCells |-> boardBits[i] = "1"]

\* FromBits with no mine at all when the probability is 0.
FromBitsThinned(probability, width, height, boardKey, boardBits) ==
    Constructed(probability, width, height, boardKey, boardBits,
                BuildCells([i \in 1..(width * height) |->
                               boardBits[i] = "1" /\ probability > 0],
                           [i \in 1..(width * height) |->
                               boardBits[i] = "1" /\ probability > 0],
                           width, width * height, <<>>))

\* Reconstruct mode once the key is parsed: cellBinary and the cells.
FromBits(probability, width, height, boardKey, boardBits) ==
    Constructed(probability, width, height, boardKey, boardBits,
                BuildCells(MineFlags(boardBits, width * height),
                           MineFlags(boardBits, width * height),
                           width, width * height, <<>>))

\* Board(probability, width, height, boardKey) with a key: Reconstruct mode.
Reconstruct(probability, width, height, boardKey) ==
    IF ~PyInt(boardKey, 16).ok
    THEN [raised |-> "invalid literal for int() with base 16", board |-> EmptyBoard]
    ELSE FromBits(probability, width, height, boardKey,
                  Decode(boardKey, width * height))

\* "".join("1" if cellBinary[i] else "0" for i in range(numCells))
BitString(cellBinary) == [i \in 1..Len(cellBinary) |-> IF cellBinary[i] THEN "1" ELSE "0"]

\* _gen once cellBinary is drawn: the cells, boardBits and boardKey.
FromBinary(probability, width, height, cellBinary) ==
    Constructed(probability, width, height,
                Encode(BitString(cellBinary)), BitString(cellBinary),
                BuildCells(cellBinary, cellBinary, width, width * height, <<>>))

\* Gen with the draws assigned to the cells from the last cell backwards.
GenReversed(probability, width, height, rs) ==
    FromBinary(probability, width, height,
               [i \in 1..(width * height) |->
                   decision(probability, rs[width * height + 1 - i])])

\* Board._gen, for the values rs that random() returned.
Gen(probability, width, height, rs) ==
    FromBinary(probability, width, height,
               [i \in 1..(width * height) |-> decision(probability, rs[i])])

(***************************************************************************)
(* Construction of boards: the callers of Board(...).                      *)
(***************************************************************************)
\* The shapes a caller asks for.
Shapes == {wh \in (1..MaxCells) \X (1..MaxCells) : wh[1] * wh[2] <= MaxCells}

\* The characters of the keys a caller supplies.
KeyChars == {"0", "1", "5", "f", "F", "z"}

InputKeys == UNION {[1..n -> KeyChars] : n \in 0..MaxKeyLen}

NoArgs == [probability |-> 0, width |-> 0, height |-> 0, boardKey |-> NoneKey]

NoFirst == [made |-> FALSE, args |-> NoArgs, board |-> EmptyBoard]

NoCall == [fn |-> "none"]

\* Before Tokens(rows, ...) is called.
NoTokens == [made |-> FALSE, list |-> <<>>]

\* The threads that call Board(probability, width, height).
Callers == {1, 2}

\* A thread before its call: positions are the places, in the sequence of
\* values the one generator of the random module hands out, of its draws.
IdleCaller ==
    [pc |-> "start", args |-> NoArgs, draws |-> <<>>, positions |-> <<>>,
     board |-> EmptyBoard, raised |-> ""]

Init ==
    /\ pc = "start"
    /\ args = NoArgs
    /\ draws = <<>>
    /\ board = EmptyBoard
    /\ raised = ""
    /\ first = NoFirst
    /\ call = NoCall
    /\ cursor = 0
    /\ callers = [c \in Callers |-> IdleCaller]
    /\ tokens = NoTokens
    /\ frames = <<>>

\* Board(probability, width, height): __init__ stores the arguments and enters _gen.
Generate ==
    /\ pc = "start"
    /\ \E probability \in Probabilities, wh \in Shapes :
          args' = [probability |-> probability, width |-> wh[1], height |-> wh[2],
                   boardKey |-> NoneKey]
    /\ pc' = "drawing"
    /\ UNCHANGED <<draws, board, raised, first, call, cursor, callers, tokens, frames>>

\* One decision(self.probability) of the comprehension that builds cellBinary.
Draw ==
    /\ pc = "drawing"
    /\ Len(draws) < args.width * args.height
    /\ \E r \in RandomValues : draws' = Append(draws, r)
    /\ cursor' = cursor + 1
    /\ UNCHANGED <<pc, args, board, raised, first, call, callers, tokens, frames>>

\* The rest of _gen once every cell is drawn: cells, boardBits, boardKey.
GenReturn ==
    /\ pc = "drawing"
    /\ Len(draws) = args.width * args.height
    /\ \E r \in {Gen(args.probability, args.width, args.height, draws)} :
           /\ pc' = IF r.raised = "" THEN "constructed" ELSE "raised"
           /\ board' = r.board
           /\ raised' = r.raised
    /\ UNCHANGED <<args, draws, first, call, cursor, callers, tokens, frames>>

\* Board(probability, width, height, boardKey) with a key of the caller's.
ReconstructCall ==
    /\ pc = "start"
    /\ \E probability \in Probabilities, wh \in Shapes, boardKey \in InputKeys :
          \E r \in {Reconstruct(probability, wh[1], wh[2], boardKey)} :
              /\ pc' = IF r.raised = "" THEN "constructed" ELSE "raised"
              /\ board' = r.board
              /\ raised' = r.raised
              /\ args' = [probability |-> probability, width |-> wh[1],
                          height |-> wh[2], boardKey |-> boardKey]
    /\ UNCHANGED <<draws, first, call, cursor, callers, tokens, frames>>

\* A second Board from the width, height and key of the constructed one, as
\* the game record (board_width, board_height, board_key) hands them back.
\* A behaviour follows a stored game through one such reload.
Rehydrate ==
    /\ pc = "constructed"
    /\ ~first.made
    /\ \E probability \in Probabilities :
          \E r \in {Reconstruct(probability, board.width, board.height, board.boardKey)} :
              /\ pc' = IF r.raised = "" THEN "constructed" ELSE "raised"
              /\ board' = r.board
              /\ raised' = r.raised
              /\ args' = [probability |-> probability, width |-> board.width,
                          height |-> board.height, boardKey |-> board.boardKey]
    /\ first' = [made |-> TRUE, args |-> args, board |-> board]
    /\ UNCHANGED <<draws, call, cursor, callers, tokens, frames>>

Next ==
    \/ Generate
    \/ Draw
    \/ GenReturn
    \/ ReconstructCall
    \/ Rehydrate

Spec == Init /\ [][Next]_vars

(***************************************************************************)
(* Reconstruct mode on keys written as Python integer literals.            *)
(***************************************************************************)
\* Hexadecimal digits, a letter that is none, and the characters int() gives
\* a meaning to: signs, the x of the 0x prefix, the underscore, the blank.
LiteralChars == {"0", "f", "z", "-", "+", "x", "_", " "}

LiteralKeys == UNION {[1..n -> LiteralChars] : n \in 0..MaxKeyLen}

LiteralShapes ==
    {wh \in (1..MaxLiteralCells) \X (1..MaxLiteralCells) :
        wh[1] * wh[2] <= MaxLiteralCells}

\* Board(probability, width, height, boardKey) with such a key.
ReconstructLiteral ==
    /\ pc = "start"
    /\ \E probability \in Probabilities, wh \in LiteralShapes, boardKey \in LiteralKeys :
          \E r \in {Reconstruct(probability, wh[1], wh[2], boardKey)} :
              /\ pc' = IF r.raised = "" THEN "constructed" ELSE "raised"
              /\ board' = r.board
              /\ raised' = r.raised
              /\ args' = [probability |-> probability, width |-> wh[1],
                          height |-> wh[2], boardKey |-> boardKey]
    /\ UNCHANGED <<draws, first, call, cursor, callers, tokens, frames>>

NextLiteral == ReconstructLiteral

SpecLiteral == Init /\ [][NextLiteral]_vars

(***************************************************************************)
(* Two Boards reconstructed one after the other, on the same shape, from   *)
(* keys that may spell one number differently.                             *)
(***************************************************************************)
\* A digit in its two cases and the zero that pads.
PairChars == {"0", "b", "B"}

PairKeys == UNION {[1..n -> PairChars] : n \in 0..MaxKeyLen}

\* Board(probability, width, height, boardKey): the first Board.
ReconstructOne ==
    /\ pc = "start"
    /\ \E probability \in Probabilities, wh \in Shapes, boardKey \in PairKeys :
          \E r \in {Reconstruct(probability, wh[1], wh[2], boardKey)} :
              /\ pc' = IF r.raised = "" THEN "constructed" ELSE "raised"
              /\ board' = r.board
              /\ raised' = r.raised
              /\ args' = [probability |-> probability, width |-> wh[1],
                          height |-> wh[2], boardKey |-> boardKey]
    /\ UNCHANGED <<draws, first, call, cursor, callers, tokens, frames>>

\* Board(probability, width, height, boardKey) with the width and height
\* of the first Board and a key of the caller's: the second Board.
ReconstructOther ==
    /\ pc = "constructed"
    /\ ~first.made
    /\ \E probability \in Probabilities, boardKey \in PairKeys :
          \E r \in {Reconstruct(probability, board.width, board.height, boardKey)} :
              /\ pc' = IF r.raised = "" THEN "constructed" ELSE "raised"
              /\ board' = r.board
              /\ raised' = r.raised
              /\ args' = [probability |-> probability, width |-> board.width,
                          height |-> board.height, boardKey |-> boardKey]
    /\ first' = [made |-> TRUE, args |-> args, board |-> board]
    /\ UNCHANGED <<draws, call, cursor, callers, tokens, frames>>

NextPair ==
    \/ ReconstructOne
    \/ ReconstructOther

SpecPair == Init /\ [][NextPair]_vars

(***************************************************************************)
(* Two threads in Generate mode.  random is the function of the module     *)
(* random (line 5): every call, from any thread, takes the next value of   *)
(* the one generator of the process.                                       *)
(***************************************************************************)
SharedShapes == {<<side, side>> : side \in 1..MaxSharedSide}

\* Board(probability, width, height) in thread c: __init__ enters _gen.
ThreadGenerate(c, shapes) ==
    /\ callers[c].pc = "start"
    /\ \E probability \in Probabilities, wh \in shapes :
          callers' = [callers EXCEPT
                        ![c].pc = "drawing",
                        ![c].args = [probability |-> probability, width |-> wh[1],
                                     height |-> wh[2], boardKey |-> NoneKey]]
    /\ UNCHANGED <<pc, args, draws, board, raised, first, call, cursor, tokens, frames>>

\* One decision(self.probability) of thread c: random() hands out the next
\* value of the generator and moves it on.
ThreadDraw(c) ==
    /\ callers[c].pc = "drawing"
    /\ Len(callers[c].draws) < callers[c].args.width * callers[c].args.height
    /\ \E r \in RandomValues :
          callers' = [callers EXCEPT
                        ![c].draws = Append(@, r),
                        ![c].positions = Append(@, cursor + 1)]
    /\ cursor' = cursor + 1
    /\ UNCHANGED <<pc, args, draws, board, raised, first, call, tokens, frames>>

SharedResult(c, r) ==
    [callers EXCEPT ![c].pc = IF r.raised = "" THEN "constructed" ELSE "raised",
                    ![c].board = r.board,
                    ![c].raised = r.raised]

\* The rest of _gen in thread c once its cells are drawn.
ThreadGenReturn(c) ==
    /\ callers[c].pc = "drawing"
    /\ Len(callers[c].draws) = callers[c].args.width * callers[c].args.height
    /\ callers' = SharedResult(c, Gen(callers[c].args.probability,
                                       callers[c].args.width,
                                       callers[c].args.height, callers[c].draws))
    /\ UNCHANGED <<pc, args, draws, board, raised, first, call, cursor, tokens, frames>>

SharedGenerate == \E c \in Callers : ThreadGenerate(c, SharedShapes)

SharedDraw == \E c \in Callers : ThreadDraw(c)

SharedGenReturn == \E c \in Callers : ThreadGenReturn(c)

NextShared ==
    \/ SharedGenerate
    \/ SharedDraw
    \/ SharedGenReturn

SpecShared == Init /\ [][NextShared]_vars

(***************************************************************************)
(* A stored game reloaded twice while another thread generates a Board.    *)
(***************************************************************************)
StoredKeys == UNION {[1..n -> {"0", "6"}] : n \in 0..MaxStoredKeyLen}

BackgroundShapes ==
    {wh \in (1..MaxBackgroundCells) \X (1..MaxBackgroundCells) :
        wh[1] * wh[2] <= MaxBackgroundCells}

\* Board(probability, width, height, boardKey) with the key of a stored game.
ReconstructStored ==
    /\ pc = "start"
    /\ \E probability \in Probabilities, wh \in SharedShapes, boardKey \in StoredKeys :
          \E r \in {Reconstruct(probability, wh[1], wh[2], boardKey)} :
              /\ pc' = IF r.raised = "" THEN "constructed" ELSE "raised"
              /\ board' = r.board
              /\ raised' = r.raised
              /\ args' = [probability |-> probability, width |-> wh[1],
                          height |-> wh[2], boardKey |-> boardKey]
    /\ UNCHANGED <<draws, first, call, cursor, callers, tokens, frames>>

BackgroundGenerate == ThreadGenerate(1, BackgroundShapes)

BackgroundDraw == ThreadDraw(1)

BackgroundGenReturn == ThreadGenReturn(1)

NextReload ==
    \/ ReconstructStored
    \/ Rehydrate
    \/ BackgroundGenerate
    \/ BackgroundDraw
    \/ BackgroundGenReturn

SpecReload == Init /\ [][NextReload]_vars

(***************************************************************************)
(* Tokens (datatypes/db/tokens.py): a list whose methods refresh it.       *)
(* The expiration of a token is written as a number ordered like the       *)
(* times.  The comparison of line 86 is never reached (see RecursionError),*)
(* so the model takes no position on the type row['expiration'] has.       *)
(***************************************************************************)
Expirations == {0, 1, 2}

\* The methods Tokens defines that are called on the object from outside, by
\* the name of the frame they run in.  Each but _refresh has self._refresh()
\* as its first statement.
Accessors == {"_refresh", "dict", "new", "__getitem__", "__iter__", "__len__",
              "__contains__", "__str__", "__repr__", "__eq__", "__ne__",
              "__lt__", "__le__", "__gt__", "__ge__", "__add__", "__iadd__",
              "__mul__", "__imul__", "__rmul__"}

\* The methods of list that Tokens does not override.  None of them runs a
\* method of Tokens, so none refreshes the list.
Inherited == {"pop", "__delitem__", "__setitem__", "append", "extend",
              "insert", "remove", "sort", "clear", "reverse", "copy", "index",
              "count", "__reversed__"}

\* No call on the object is running: none was made, or the last one ended.
Idle == call.fn = "none" \/ (call.fn \in {"Tokens", "list"} /\ call.state # "running")

\* The tokens a caller can hand to the list: Token objects that are not the
\* ones the list was constructed with.
NewTokens == [id : {MaxTokens + 1}, expiration : Expirations]

\* The plain lists of such tokens a caller can hand to extend and to a slice
\* assignment.
NewItems == UNION {[1..n -> NewTokens] : n \in 0..(MaxTokens - 1)}

\* The integers given as an index, in range and out of range on both sides.
Indices == (0 - MaxTokens - 1)..MaxTokens

\* The bounds of a slice lo:hi.
SliceBounds == 0..MaxTokens

\* The outcome of a method of list: "returned" or the exception raised, and
\* the list after it.
ListResult(state, list) == [state |-> state, list |-> list]

\* The position, counted from 1, that the index names; an index below 0
\* counts from the end.
PositionOf(list, index) == IF index < 0 THEN index + Len(list) + 1 ELSE index + 1

HasIndex(list, index) == PositionOf(list, index) \in 1..Len(list)

\* A bound of a slice or the index of an insert, brought into 0..len(list).
Clamped(list, index) ==
    IF index < 0 THEN (IF index + Len(list) < 0 THEN 0 ELSE index + Len(list))
    ELSE IF index > Len(list) THEN Len(list) ELSE index

\* list[lo:hi] = items, with lo <= hi already in 0..len(list).
Splice(list, lo, hi, items) ==
    SubSeq(list, 1, lo) \o items \o SubSeq(list, hi + 1, Len(list))

\* list.pop(index) and del list[index].
ListPop(list, index) ==
    IF HasIndex(list, index)
    THEN ListResult("returned", Splice(list, PositionOf(list, index) - 1,
                                       PositionOf(list, index), <<>>))
    ELSE ListResult("IndexError", list)

\* list[index] = token.
ListSetItem(list, index, token) ==
    IF HasIndex(list, index)
    THEN ListResult("returned", [list EXCEPT ![PositionOf(list, index)] = token])
    ELSE ListResult("IndexError", list)

\* list[lo:hi] = items and, with no items, del list[lo:hi]; a slice whose
\* end is before its start is empty at its start.
ListSetSlice(list, lo, hi, items) ==
    ListResult("returned",
               Splice(list, Clamped(list, lo),
                      IF Clamped(list, hi) < Clamped(list, lo)
                      THEN Clamped(list, lo) ELSE Clamped(list, hi),
                      items))

\* list.insert(index, token).
ListInsert(list, index, token) ==
    ListResult("returned",
               Splice(list, Clamped(list, index), Clamped(list, index), <<token>>))

\* list.extend(items) and, with one item, list.append(token).
ListExtend(list, items) == ListResult("returned", list \o items)

\* The token is an item of the list.  A Token is found by being the object
\* looked for; Token defines no __eq__.
Holds(list, token) == \E p \in 1..Len(list) : list[p] = token

\* list.index(token), from 1.
FirstPosition(list, token) ==
    CHOOSE p \in 1..Len(list) :
        list[p] = token /\ \A q \in 1..(p - 1) : list[q] # token

\* list.remove(token).
ListRemove(list, token) ==
    IF Holds(list, token)
    THEN ListResult("returned", Splice(list, FirstPosition(list, token) - 1,
                                       FirstPosition(list, token), <<>>))
    ELSE ListResult("ValueError", list)

\* list.index(token) and list.count(token): the list is only read.
ListIndex(list, token) ==
    ListResult(IF Holds(list, token) THEN "returned" ELSE "ValueError", list)

\* key(token) for the two keys a caller sorts by.
KeyOf(token, key) == IF key = "id" THEN token.id ELSE token.expiration

\* The item at position q comes before the item at position p in
\* list.sort(key=key, reverse=reverse): by the key, and by position among
\* equal keys (the sort is stable, reversed or not).
SortsBefore(list, q, p, key, reverse) ==
    \/ /\ ~reverse
       /\ KeyOf(list[q], key) < KeyOf(list[p], key)
    \/ /\ reverse
       /\ KeyOf(list[q], key) > KeyOf(list[p], key)
    \/ /\ KeyOf(list[q], key) = KeyOf(list[p], key)
       /\ q < p

\* How many items come before the item at position p.
Rank(list, p, key, reverse) ==
    Cardinality({q \in 1..Len(list) : SortsBefore(list, q, p, key, reverse)})

\* list.sort(key=key, reverse=reverse).
ListSortBy(list, key, reverse) ==
    ListResult("returned",
               [r \in 1..Len(list) |->
                   list[CHOOSE p \in 1..Len(list) :
                           Rank(list, p, key, reverse) = r - 1]])

\* list.sort() without a key compares the tokens with <, which Token does
\* not define: TypeError at the first comparison, the list as it was.
ListSort(list) ==
    ListResult(IF Len(list) < 2 THEN "returned" ELSE "TypeError", list)

\* list.reverse().
Reversed(list) == [i \in 1..Len(list) |-> list[Len(list) + 1 - i]]

\* Tokens(rows, ...): one Token per row appended to the list, with
\* list.append, which Tokens does not override.
TokensInit ==
    /\ ~tokens.made
    /\ \E n \in 0..MaxTokens :
          \E rows \in [1..n -> Expirations] :
             tokens' = [made |-> TRUE,
                        list |-> [i \in 1..n |-> [id |-> i, expiration |-> rows[i]]]]
    /\ UNCHANGED <<pc, args, draws, board, raised, first, call, cursor, callers, frames>>

\* A call of a method of the Tokens object from outside; before is the list
\* as the call finds it.
AccessorCall ==
    /\ tokens.made
    /\ Idle
    /\ \E accessor \in Accessors :
          /\ call' = [fn |-> "Tokens", accessor |-> accessor, state |-> "running",
                      before |-> tokens.list]
          /\ frames' = <<accessor>>
    /\ UNCHANGED <<pc, args, draws, board, raised, first, cursor, callers, tokens>>

\* One call of a method of list with its outcome r.
ListCall(method, arguments, r) ==
    /\ Len(r.list) <= MaxTokens
    /\ call' = [fn |-> "list", accessor |-> method, arguments |-> arguments,
                state |-> r.state, before |-> tokens.list]
    /\ tokens' = [tokens EXCEPT !.list = r.list]

\* A call, from outside, of a method the Tokens object inherits from list:
\* the method of list runs, no method of Tokens does.
InheritedCall ==
    /\ tokens.made
    /\ Idle
    /\ \/ \E index \in Indices :
             ListCall("pop", <<index>>, ListPop(tokens.list, index))
       \/ \E index \in Indices :
             ListCall("__delitem__", <<index>>, ListPop(tokens.list, index))
       \/ \E lo \in SliceBounds, hi \in SliceBounds :
             ListCall("__delitem__", <<"slice", lo, hi>>,
                      ListSetSlice(tokens.list, lo, hi, <<>>))
       \/ \E index \in Indices, token \in NewTokens :
             ListCall("__setitem__", <<index, token>>,
                      ListSetItem(tokens.list, index, token))
       \/ \E lo \in SliceBounds, hi \in SliceBounds, token \in NewTokens :
             ListCall("__setitem__", <<"slice", lo, hi, <<token>> >>,
                      ListSetSlice(tokens.list, lo, hi, <<token>>))
       \/ \E token \in NewTokens :
             ListCall("append", <<token>>, ListExtend(tokens.list, <<token>>))
       \/ \E items \in NewItems :
             ListCall("extend", <<items>>, ListExtend(tokens.list, items))
       \/ \E index \in Indices, token \in NewTokens :
             ListCall("insert", <<index, token>>,
                      ListInsert(tokens.list, index, token))
       \/ \E token \in NewTokens \cup {tokens.list[p] : p \in 1..Len(tokens.list)} :
             \/ ListCall("remove", <<token>>, ListRemove(tokens.list, token))
             \/ ListCall("index", <<token>>, ListIndex(tokens.list, token))
             \/ ListCall("count", <<token>>, ListResult("returned", tokens.list))
       \/ ListCall("sort", <<>>, ListSort(tokens.list))
       \/ \E key \in {"id", "expiration"}, reverse \in BOOLEAN :
             ListCall("sort", <<key, reverse>>,
                      ListSortBy(tokens.list, key, reverse))
       \/ ListCall("clear", <<>>, ListResult("returned", <<>>))
       \/ ListCall("reverse", <<>>, ListResult("returned", Reversed(tokens.list)))
       \/ \E method \in {"copy", "__reversed__"} :
             ListCall(method, <<>>, ListResult("returned", tokens.list))
    /\ UNCHANGED <<pc, args, draws, board, raised, first, cursor, callers, frames>>

\* A frame can be pushed.
CanCall == Len(frames) < MaxFrames

Running == call.fn = "Tokens" /\ call.state = "running" /\ frames # <<>>

\* The first statement of every method of Accessors but _refresh:
\* self._refresh().
EnterRefresh ==
    /\ Running
    /\ frames[Len(frames)] # "_refresh"
    /\ CanCall
    /\ frames' = Append(frames, "_refresh")
    /\ UNCHANGED <<pc, args, draws, board, raised, first, call, cursor, callers, tokens>>

\* _refresh up to the head of its loop: currentTime is taken, then
\* "for token in self" asks the object for its iterator, which is a call of
\* Tokens.__iter__.
RefreshIterate ==
    /\ Running
    /\ frames[Len(frames)] = "_refresh"
    /\ CanCall
    /\ frames' = Append(frames, "__iter__")
    /\ UNCHANGED <<pc, args, draws, board, raised, first, call, cursor, callers, tokens>>

\* The call that would exceed the recursion limit raises RecursionError; no
\* frame catches it, so it leaves the method that was called from outside.
\* Nothing was removed from the list and no DELETE was sent.
RecursionError ==
    /\ Running
    /\ ~CanCall
    /\ frames' = <<>>
    /\ call' = [call EXCEPT !.state = "RecursionError"]
    /\ UNCHANGED <<pc, args, draws, board, raised, first, cursor, callers, tokens>>

NextTokens ==
    \/ TokensInit
    \/ AccessorCall
    \/ InheritedCall
    \/ EnterRefresh
    \/ RefreshIterate
    \/ RecursionError

SpecTokens == Init /\ [][NextTokens]_vars

(***************************************************************************)
(* countAdjacent called on its own.                                        *)
(***************************************************************************)
\* Every bitmap of up to MaxBits cells, and on the larger grids the empty, the
\* full and the one-mine bitmaps.
Patterns(n) ==
    {[i \in 1..n |-> FALSE], [i \in 1..n |-> TRUE]}
        \cup {[i \in 1..n |-> i = m] : m \in 1..n}

\* The positions of cellBinary the counting loop read: the sorted candidates
\* when the call returned, none when it raised (every raise precedes the loop).
ReadsOf(ret, fetchIndex) == IF ret.raised = "" THEN Sort(fetchIndex) ELSE <<>>

\* The record of one call: its arguments, the candidate list it built (empty
\* when the validation raised before building one), its result, the
\* positions it read and the caller's list after the call (countAdjacent has
\* no statement that assigns to cellBinary or to one of its items; sort() is
\* called on fetchIndex).
CountAdjacentCall(cellBinary, width, index) ==
    [fn |-> "countAdjacent", cellBinary |-> cellBinary, width |-> width,
     index |-> index,
     after |-> cellBinary,
     reads |-> ReadsOf(countAdjacent(cellBinary, width, index),
                       IF index < 0 \/ index >= Len(cellBinary)
                          \/ Len(cellBinary) % width # 0
                       THEN <<>> ELSE FetchIndex(width, index)),
     fetchIndex |-> IF index < 0 \/ index >= Len(cellBinary)
                       \/ Len(cellBinary) % width # 0
                    THEN <<>> ELSE FetchIndex(width, index),
     ret |-> countAdjacent(cellBinary, width, index)]

\* A call on any bitmap of up to MaxBits cells, any width, any index.
CallCountAdjacent ==
    /\ call.fn = "none"
    /\ \E n \in 1..MaxBits :
          \E cellBinary \in [1..n -> BOOLEAN], width \in 1..n, index \in (0 - 1)..n :
             call' = CountAdjacentCall(cellBinary, width, index)
    /\ UNCHANGED <<pc, args, draws, board, raised, first, cursor, callers, tokens, frames>>

\* A call on a grid of up to MaxSide by MaxSide cells with a pattern bitmap.
CallCountAdjacentGrid ==
    /\ call.fn = "none"
    /\ \E width \in 1..MaxSide, height \in 1..MaxSide :
          \E cellBinary \in Patterns(width * height), index \in 0..(width * height - 1) :
             call' = CountAdjacentCall(cellBinary, width, index)
    /\ UNCHANGED <<pc, args, draws, board, raised, first, cursor, callers, tokens, frames>>

NextCountAdjacent ==
    \/ CallCountAdjacent
    \/ CallCountAdjacentGrid

SpecCountAdjacent == Init /\ [][NextCountAdjacent]_vars

(***************************************************************************)
(* The codec called on its own.                                            *)
(***************************************************************************)
BitStrings == UNION {[1..n -> {"0", "1"}] : n \in 1..MaxBits}

CallEncode ==
    /\ call.fn = "none"
    /\ \E bits \in BitStrings :
          call' = [fn |-> "encode", bits |-> bits, key |-> Encode(bits)]
    /\ UNCHANGED <<pc, args, draws, board, raised, first, cursor, callers, tokens, frames>>

CallDecode ==
    /\ call.fn = "encode"
    /\ call' = [fn |-> "decode", bits |-> call.bits, key |-> call.key,
                decoded |-> Decode(call.key, Len(call.bits))]
    /\ UNCHANGED <<pc, args, draws, board, raised, first, cursor, callers, tokens, frames>>

NextCodec ==
    \/ CallEncode
    \/ CallDecode

SpecCodec == Init /\ [][NextCodec]_vars

(***************************************************************************)
(* The request handlers of main.py, each called on its own.  A value that  *)
(* may be None is written as a sequence: <<>> for None, <<v>> for v.  What *)
(* jwt.decode and the database answer are inputs of the call.              *)
(***************************************************************************)
Optional(S) == {<<>>} \cup {<<v>> : v \in S}

HTTPException(status_code, detail) ==
    [raised |-> "HTTPException", value |-> 0, status_code |-> status_code,
     detail |-> detail]

Emails == {"a", "b"}

AccessLevels == {0 - 1, 0, 1}

\* The users the database can hold, by the fields the handlers read.
Users == [email : Emails, accessLevel : AccessLevels]

\* User.banned.
banned(user) == user.accessLevel = 0 - 1

\* int(datetime.now().timestamp()), between the expirations of the payloads.
NowTimestamp == 1

Timestamps == {0, 1, 2}

\* The claims jwt.decode can hand back; payload.get("sub") is None for a
\* payload without "sub".
Payloads == [sub : Optional(Emails), exp : Optional(Timestamps)]

\* jwt.decode(token, config.jwtSecret, algorithms=["HS256"]): JWTError, or the
\* payload of the token.
Decodings == {Raise("JWTError")} \cup {Return(payload) : payload \in Payloads}

tokenError == HTTPException(401, "Invalid token.")

\* currentUser(token), where decoded is the outcome of jwt.decode and found
\* is the answer of database.getUser(token=token).
currentUser(token, decoded, found) ==
    IF token = <<>> THEN Return(<<>>)
    ELSE IF decoded.raised = "JWTError" THEN tokenError
    ELSE IF decoded.value.sub = <<>> THEN tokenError
    ELSE IF decoded.value.exp = <<>> THEN Raise("KeyError")
    ELSE IF decoded.value.exp[1] < NowTimestamp
         THEN HTTPException(401, "Token expired.")
    ELSE IF found = <<>> THEN tokenError
    ELSE IF found[1].email # decoded.value.sub[1] THEN tokenError
    ELSE IF banned(found[1]) THEN HTTPException(403, "User is banned.")
    ELSE Return(found)

CallCurrentUser ==
    /\ call.fn = "none"
    /\ \E token \in Optional({"token"}), decoded \in Decodings,
          found \in Optional(Users) :
          call' = [fn |-> "currentUser", token |-> token, decoded |-> decoded,
                   found |-> found,
                   ret |-> currentUser(token, decoded, found)]
    /\ UNCHANGED <<pc, args, draws, board, raised, first, cursor, callers, tokens, frames>>

\* The scopes a user can carry.
Scopes == {"read:user", "all", "write:user"}

\* database.getUser(userId, uuid, email) as _getUser calls it, token left at
\* None: ValueError when the three are None, else the row the database
\* found, or None.
DatabaseGetUser(userId, uuid, email, found) ==
    IF userId = <<>> /\ uuid = <<>> /\ email = <<>>
    THEN Raise("At least one parameter must be provided.")
    ELSE Return(found)

\* What _getUser does with the answer of the database: 404 for None, else
\* the user's model.
GetUserAnswer(got) ==
    IF got.raised # "" THEN got
    ELSE IF got.value = <<>> THEN HTTPException(404, "User not found.")
    ELSE Return(got.value[1])

\* _getUser(response, user, userId, uuid, email), where oauthScopes are the
\* scopes of the current user.  lookups are the calls of database.getUser.
GetUser(oauthScopes, userId, uuid, email, found) ==
    IF userId # <<>> /\ uuid # <<>> /\ email # <<>>
    THEN [ret |-> HTTPException(400, "Only one of userId, uuid, or email may be set."),
          lookups |-> <<>>]
    ELSE IF "read:user" \notin oauthScopes /\ "all" \notin oauthScopes
    THEN [ret |-> HTTPException(403, "User is not authorized to view users."),
          lookups |-> <<>>]
    ELSE [ret |-> GetUserAnswer(DatabaseGetUser(userId, uuid, email, found)),
          lookups |-> << <<userId, uuid, email>> >>]

CallGetUser ==
    /\ call.fn = "none"
    /\ \E oauthScopes \in SUBSET Scopes, userId \in Optional({1}),
          uuid \in Optional({"u"}), email \in Optional({"a"}),
          found \in Optional(Users) :
          \E r \in {GetUser(oauthScopes, userId, uuid, email, found)} :
             call' = [fn |-> "_getUser", oauthScopes |-> oauthScopes,
                      userId |-> userId, uuid |-> uuid, email |-> email,
                      found |-> found, ret |-> r.ret, lookups |-> r.lookups]
    /\ UNCHANGED <<pc, args, draws, board, raised, first, cursor, callers, tokens, frames>>

\* The characters of a password: an ASCII and a non-ASCII digit, lowercase
\* letter and uppercase letter, and an ASCII character that is neither.
PasswordChars == {"1", "a", "A", "!", "U+0663", "U+00E9", "U+00C9"}

isdigit(char) == char \in {"1", "U+0663"}

islower(char) == char \in {"a", "U+00E9"}

isupper(char) == char \in {"A", "U+00C9"}

isascii(char) == char \in {"1", "a", "A", "!"}

\* any(test(char) for char in password), where passing are the characters
\* the test is true of.
AnyChar(passing, password) == \E i \in 1..Len(password) : password[i] \in passing

MinPasswordLength == 8

\* A run of one character of up to MaxPasswordFill, then up to
\* MaxPasswordTail characters of any kind.
Passwords ==
    {[i \in 1..n |-> c] \o tail :
        c \in PasswordChars, n \in 0..MaxPasswordFill,
        tail \in UNION {[1..m -> PasswordChars] : m \in 0..MaxPasswordTail}}

\* database.addUser(email, password, username): the token of the new row is
\* asked of _makeAccessToken({"sub": email}, tokenExpireTime, jwtSecret),
\* whose parameters are (config, data, expires); data.copy() is called on
\* the timedelta, or tokenExpireDays is read from the dict when the secret
\* is empty.  Either is an AttributeError, raised while the arguments of the
\* INSERT are built, so no row is inserted.
AddUser(email, password, username) == Raise("AttributeError")

\* The dict the handler returns for a refused password, with the status it
\* wrote to the response.
Refused(error) ==
    [status_code |-> <<400>>, ret |-> Return(error), addUser |-> <<>>]

\* _createUser(response, email, password, username).  status_code is what
\* the handler wrote to response.status_code, addUser the calls of
\* database.addUser.
CreateUser(email, password, username) ==
    IF Len(password) < MinPasswordLength
    THEN Refused("Password must be at least 8 characters.")
    ELSE IF ~AnyChar({char \in PasswordChars : isdigit(char)}, password)
    THEN Refused("Password must contain at least 1 number.")
    ELSE IF ~AnyChar({char \in PasswordChars : islower(char)}, password)
    THEN Refused("Password must contain at least 1 lowercase letter.")
    ELSE IF ~AnyChar({char \in PasswordChars : isupper(char)}, password)
    THEN Refused("Password must contain at least 1 uppercase letter.")
    ELSE IF ~AnyChar({char \in PasswordChars : isascii(char)}, password)
    THEN Refused("Password must contain at least 1 special character.")
    ELSE [status_code |-> <<>>, ret |-> AddUser(email, password, username),
          addUser |-> << <<email, password, username>> >>]

CallCreateUser ==
    /\ call.fn = "none"
    /\ \E password \in Passwords :
          \E r \in {CreateUser("a", password, "name")} :
             call' = [fn |-> "_createUser", password |-> password,
                      status_code |-> r.status_code, ret |-> r.ret,
                      addUser |-> r.addUser]
    /\ UNCHANGED <<pc, args, draws, board, raised, first, cursor, callers, tokens, frames>>

NextApi ==
    \/ CallCurrentUser
    \/ CallGetUser
    \/ CallCreateUser

SpecApi == Init /\ [][NextApi]_vars

(***************************************************************************)
(* Properties.                                                             *)
(***************************************************************************)
\* The cells around (index \div width, index % width) on the grid of width
\* columns and height rows, and the mines among them, counted cell by cell.
Neighbours(width, height, index) ==
    {j \in 0..(width * height - 1) :
        /\ j # index
        /\ (j \div width) - (index \div width) \in {0 - 1, 0, 1}
        /\ (j % width) - (index % width) \in {0 - 1, 0, 1}}

BruteForce(mines, width, height, index) ==
    Cardinality({j \in Neighbours(width, height, index) : mines[j + 1]})

Generated == args.boardKey = NoneKey

AdjacentCounts == [i \in 1..Len(board.cells) |-> board.cells[i].adjacentMines]

Mines == [i \in 1..Len(board.cells) |-> board.cells[i].mine]

\* C1: for every width and height, generating a Board succeeds, and a second
\* Board reconstructed from its width, height and key has the same boardBits
\* and the same boardKey.
C1_RoundTrip ==
    /\ (Generated /\ pc \in {"constructed", "raised"}) => pc = "constructed"
    /\ (first.made /\ first.args.boardKey = NoneKey) =>
          /\ pc = "constructed"
          /\ board.boardBits = first.board.boardBits
          /\ board.boardKey = first.board.boardKey

\* C2: on any rectangle (the length a multiple of the width, the index inside),
\* countAdjacent returns the number of mines among the in-bounds 8-neighbours.
C2_Contract ==
    (/\ call.fn = "countAdjacent"
     /\ Len(call.cellBinary) % call.width = 0
     /\ call.index >= 0
     /\ call.index < Len(call.cellBinary)) =>
        /\ call.ret.raised = ""
        /\ call.ret.value = BruteForce(call.cellBinary, call.width,
                                       Len(call.cellBinary) \div call.width, call.index)

\* C3: every cell of a generated Board carries the brute-force count of the
\* mines among its in-bounds 8-neighbours.
C3_AdjacencyCorrect ==
    (pc = "constructed" /\ Generated) =>
        \A i \in 1..Len(board.cells) :
            board.cells[i].adjacentMines =
                BruteForce(Mines, board.width, board.height, i - 1)

C3_Witness ==
    /\ pc = "constructed"
    /\ Generated
    /\ board.width = 3
    /\ board.cells[5].adjacentMines = 3
    /\ board.cells[6].adjacentMines = 2

Bits101 == <<"1", "0", "1", "0", "1", "0", "1", "0", "1">>

IsBoard101 ==
    /\ pc = "constructed"
    /\ board.width = 3
    /\ board.height = 3
    /\ board.boardBits = Bits101

\* C4 as stated: the 3x3 board of bitmap 101010101 reports the adjacency
\* counts 2,2,2, 2,4,2, 2,2,2.
C4_Claimed == IsBoard101 => AdjacentCounts = <<2, 2, 2, 2, 4, 2, 2, 2, 2>>

\* C4 amended: the 3x3 board of bitmap 101010101 reports the adjacency
\* counts 1,3,1, 3,4,3, 1,3,1.
C4_Scenario == IsBoard101 => AdjacentCounts = <<1, 3, 1, 3, 4, 3, 1, 3, 1>>

C4_Witness == IsBoard101 /\ args.boardKey = <<"1", "5", "5">>

\* C5: decoding the encoded key of a non-empty bit string, with cellCount its
\* length, returns the bit string.
C5_CodecRoundTrip == call.fn = "decode" => call.decoded = call.bits

C5_Witness ==
    /\ call.fn = "decode"
    /\ call.bits = <<"0", "0", "1", "0", "1">>
    /\ call.key = <<"5">>
    /\ call.decoded = call.bits

\* C6: the key a constructed Board keeps is canonical: decoding it for
\* width*height cells and encoding the result gives the same key.
C6_KeyCanonical ==
    pc = "constructed" =>
        Encode(Decode(board.boardKey, board.width * board.height)) = board.boardKey

\* C7: the key of a generated Board has at least ceil(width*height / 4) digits.
C7_KeyLength ==
    (pc = "constructed" /\ Generated) =>
        4 * Len(board.boardKey) >= board.width * board.height

\* C8: boardBits of a constructed Board has exactly width*height characters.
C8_BitsLength ==
    pc = "constructed" => Len(board.boardBits) = board.width * board.height

\* C9: a constructed Board has width*height cells, and cell i is a mine
\* exactly when character i of boardBits is "1".
C9_MineFlags ==
    pc = "constructed" =>
        /\ Len(board.cells) = board.width * board.height
        /\ \A i \in 1..(board.width * board.height) :
              board.cells[i].mine = (board.boardBits[i] = "1")

C9_Witness ==
    /\ pc = "constructed"
    /\ ~Generated
    /\ Len(board.boardBits) > board.width * board.height
    /\ \E i \in 1..Len(board.cells) : board.cells[i].mine
    /\ \E i \in 1..Len(board.cells) : ~board.cells[i].mine

IsSquareCall ==
    /\ call.fn = "countAdjacent"
    /\ call.width >= 3
    /\ Len(call.cellBinary) = call.width * call.width
    /\ call.index >= 0
    /\ call.index < Len(call.cellBinary)

OnBorderRow == call.index \div call.width \in {0, call.width - 1}

OnBorderColumn == call.index % call.width \in {0, call.width - 1}

\* C10: on a square grid of side at least 3, the candidate list has 3 entries
\* for a corner, 5 for another border cell and 8 for an interior cell.
C10_TopologyCounts ==
    IsSquareCall =>
        Len(call.fetchIndex) =
            IF OnBorderRow /\ OnBorderColumn THEN 3
            ELSE IF OnBorderRow \/ OnBorderColumn THEN 5
            ELSE 8

C10_Witness ==
    /\ IsSquareCall
    /\ call.width = 4
    /\ call.index = 10
    /\ Len(call.fetchIndex) = 8

\* C11: every cell of a Board generated with probability 0.0 is no mine and
\* has no adjacent mines, whatever random() returned.
C11_ProbabilityZero ==
    (pc = "constructed" /\ Generated /\ args.probability = 0) =>
        \A i \in 1..Len(board.cells) :
            ~board.cells[i].mine /\ board.cells[i].adjacentMines = 0

C11_Witness ==
    /\ pc = "constructed"
    /\ Generated
    /\ args.probability = 0
    /\ Len(board.cells) = 9
    /\ \E i \in 1..Len(draws) : draws[i] = 0
    /\ \E i \in 1..Len(draws) : draws[i] = 1

\* C12: every cell of a Board generated with probability 1.0 is a mine and
\* its adjacentMines is the number of its neighbours inside the grid (3 in a
\* corner, 5 on the rest of the border, 8 inside), whatever random() returned.
C12_ProbabilityOne ==
    (pc = "constructed" /\ Generated /\ args.probability = 2) =>
        \A i \in 1..Len(board.cells) :
            /\ board.cells[i].mine
            /\ board.cells[i].adjacentMines =
                  Cardinality(Neighbours(board.width, board.height, i - 1))
            /\ board.cells[i].adjacentMines \in {3, 5, 8}

C12_Witness ==
    /\ pc = "constructed"
    /\ Generated
    /\ args.probability = 2
    /\ AdjacentCounts = <<3, 5, 3, 5, 8, 5, 3, 5, 3>>
    /\ \E i \in 1..Len(draws) : draws[i] = 1

HexAlphabet ==
    {"0", "1", "2", "3", "4", "5", "6", "7", "8", "9",
     "a", "b", "c", "d", "e", "f", "A", "B", "C", "D", "E", "F"}

Reconstructed == pc \in {"constructed", "raised"} /\ ~Generated

\* C13: Reconstruct mode raises and makes no Board for every key with a
\* character outside 0-9, a-f, A-F (whichever error it raises).
C13_MalformedKey ==
    (Reconstructed /\ \E i \in 1..Len(args.boardKey) : args.boardKey[i] \notin HexAlphabet) =>
        /\ pc = "raised"
        /\ board = EmptyBoard

\* C14: Reconstruct mode raises and makes no Board whenever the binary
\* representation of the key, before padding, is longer than width*height.
C14_OversizedKey ==
    (/\ Reconstructed
     /\ PyInt(args.boardKey, 16).ok
     /\ Len(BinStr(PyInt(args.boardKey, 16).val)) > args.width * args.height) =>
        /\ pc = "raised"
        /\ board = EmptyBoard

InvalidCall ==
    /\ call.fn = "countAdjacent"
    /\ call.width >= 1
    /\ \/ call.index < 0
       \/ call.index >= Len(call.cellBinary)
       \/ Len(call.cellBinary) % call.width # 0

\* C15: countAdjacent with width >= 1 raises its validation error, returns no
\* count and leaves the bitmap as it was whenever index < 0, or
\* index >= len(bitmap), or len(bitmap) % width # 0.
C15_InputValidation ==
    InvalidCall =>
        /\ call.ret.raised \in {"Index out of bounds", "List does not form a rectangle"}
        /\ call.reads = <<>>
        /\ call.after = call.cellBinary

C15_Witness ==
    /\ InvalidCall
    /\ Len(call.cellBinary) = 5
    /\ call.width = 2
    /\ call.index = 4
    /\ call.ret.raised = "List does not form a rectangle"

Distinct(s) == \A j, k \in 1..Len(s) : j # k => s[j] # s[k]

BadCandidates(fetchIndex, n) ==
    \/ \E k \in 1..Len(fetchIndex) : fetchIndex[k] < 0 \/ fetchIndex[k] >= n
    \/ ~Distinct(fetchIndex)

\* C18: countAdjacent reads no position outside [0, len(bitmap)) and none
\* twice, and when the candidate list has a negative index, an index
\* >= len(bitmap) or a duplicate, it raises before it reads any position.
C18_PostChecks ==
    call.fn = "countAdjacent" =>
        /\ \A k \in 1..Len(call.reads) :
              call.reads[k] \in 0..(Len(call.cellBinary) - 1)
        /\ Distinct(call.reads)
        /\ BadCandidates(call.fetchIndex, Len(call.cellBinary)) =>
              /\ call.ret.raised \in {"Negative index found", "Index out of bounds",
                                      "Duplicate indices found"}
              /\ call.reads = <<>>
        /\ call.ret.raised = "" =>
              call.ret.value =
                  Cardinality({q \in {call.fetchIndex[k] : k \in 1..Len(call.fetchIndex)} :
                                  call.cellBinary[q + 1]})

C18_Witness ==
    /\ call.fn = "countAdjacent"
    /\ call.fetchIndex = <<1, 1, 2>>
    /\ Len(call.cellBinary) = 3
    /\ call.ret.raised = "Duplicate indices found"
    /\ call.reads = <<>>

\* C17: every cell of a constructed Board, generated or reconstructed, and of
\* the Board it was reloaded from, is neither revealed nor flagged.
C17_InitialPlayState ==
    /\ \A i \in 1..Len(board.cells) :
          ~board.cells[i].revealed /\ ~board.cells[i].flagged
    /\ \A i \in 1..Len(first.board.cells) :
          ~first.board.cells[i].revealed /\ ~first.board.cells[i].flagged

C17_Witness ==
    /\ pc = "constructed"
    /\ first.made
    /\ first.args.boardKey = NoneKey
    /\ Len(first.board.cells) = 9
    /\ Len(board.cells) = 9
    /\ \E i \in 1..9 : board.cells[i].mine /\ first.board.cells[i].mine
    /\ \E i \in 1..9 : ~board.cells[i].mine

\* C19: _gen draws width*height values, all of them before any cell or count
\* exists, and cell i of the Board is a mine exactly when the i-th draw was
\* below the probability.
C19_DrawOrder ==
    /\ (pc = "drawing" /\ Len(draws) < args.width * args.height) =>
          board = EmptyBoard /\ raised = ""
    /\ (Generated /\ pc \in {"constructed", "raised"}) =>
          Len(draws) = args.width * args.height
    /\ (Generated /\ pc = "constructed") =>
          /\ Len(board.cells) = Len(draws)
          /\ \A i \in 1..Len(draws) :
                board.cells[i].mine = (draws[i] < args.probability)

C19_Witness ==
    /\ Generated
    /\ pc = "constructed"
    /\ args.probability = 1
    /\ draws = <<0, 1, 1, 0, 1, 1, 1, 1, 0>>
    /\ Mines = <<TRUE, FALSE, FALSE, TRUE, FALSE, FALSE, FALSE, FALSE, TRUE>>

LowerHex == <<"0", "1", "2", "3", "4", "5", "6", "7",
              "8", "9", "a", "b", "c", "d", "e", "f">>

RECURSIVE Power(_, _)
Power(base, k) == IF k = 0 THEN 1 ELSE base * Power(base, k - 1)

\* The number a string of digits writes in the base, most significant digit
\* first: the sum of digit * base^(places to its right).
RECURSIVE Weighted(_, _, _)
Weighted(s, base, i) ==
    IF i > Len(s) THEN 0
    ELSE ((CHOOSE v \in 1..16 : LowerHex[v] = s[i]) - 1) * Power(base, Len(s) - i)
         + Weighted(s, base, i + 1)

\* C20: the key of a generated Board is written with 0-9 and a-f only, with
\* no prefix, and as a hexadecimal number it is the number boardBits writes
\* in binary, boardBits[0] the most significant bit.
C20_KeyValue ==
    (Generated /\ pc = "constructed") =>
        /\ \A i \in 1..Len(board.boardKey) :
              \E v \in 1..16 : LowerHex[v] = board.boardKey[i]
        /\ Weighted(board.boardKey, 16, 1) = Weighted(board.boardBits, 2, 1)

C20_Witness ==
    /\ Generated
    /\ pc = "constructed"
    /\ board.boardBits = <<"1", "1", "0", "1", "0", "0", "1", "0", "1">>
    /\ board.boardKey = <<"1", "a", "5">>

\* C16: two Boards generated concurrently share no cursor of the random
\* source: the draws of one Board are consecutive values of its source,
\* whatever the other Board draws in between.
C16_Isolation ==
    \A c \in Callers :
        \A k \in 2..Len(callers[c].positions) :
            callers[c].positions[k] = callers[c].positions[k - 1] + 1

\* C21: with positive width and height, Generate mode returns a Board exactly
\* when width = height >= 2, whatever the probability and the draws; on every
\* other shape it raises and leaves no Board.
C21_GenerateSquareOnly ==
    (Generated /\ pc \in {"constructed", "raised"}) =>
        /\ (pc = "constructed") <=> (args.width = args.height /\ args.width >= 2)
        /\ pc = "raised" => (board = EmptyBoard /\ raised # "")

C21_Witness ==
    /\ Generated
    /\ pc = "raised"
    /\ args.width = 4
    /\ args.height = 2
    /\ args.probability = 1
    /\ raised = "Index out of bounds"
    /\ \E i \in 1..Len(draws) : draws[i] = 0

ValidCall ==
    /\ call.fn = "countAdjacent"
    /\ call.width >= 1
    /\ Len(call.cellBinary) % call.width = 0
    /\ call.index >= 0
    /\ call.index < Len(call.cellBinary)

\* C22: on a rectangle (width >= 1, length a multiple of width, index inside)
\* no candidate of the classification is negative, so countAdjacent never
\* raises 'Negative index found'.
C22_NoNegativeCandidate ==
    ValidCall =>
        /\ \A k \in 1..Len(call.fetchIndex) : call.fetchIndex[k] >= 0
        /\ call.ret.raised # "Negative index found"

C22_Witness ==
    /\ ValidCall
    /\ call.width = 2
    /\ Len(call.cellBinary) = 8
    /\ call.index = 2
    /\ call.fetchIndex = <<0, 3, 1>>

FoldCase(c) ==
    CASE c = "A" -> "a" [] c = "B" -> "b" [] c = "C" -> "c"
      [] c = "D" -> "d" [] c = "E" -> "e" [] c = "F" -> "f"
      [] OTHER -> c

RECURSIVE StripZeros(_)
StripZeros(s) == IF s # <<>> /\ Head(s) = "0" THEN StripZeros(Tail(s)) ELSE s

\* A key in lowercase without its leading zeros.
Canonical(key) == StripZeros([i \in 1..Len(key) |-> FoldCase(key[i])])

IsHexKey(key) == key # <<>> /\ \A i \in 1..Len(key) : key[i] \in HexAlphabet

\* Two keys of hexadecimal digits that differ in leading zeros and letter
\* case only, and whose number fits the cells.
SameNumber(key1, key2, cellCount) ==
    /\ IsHexKey(key1)
    /\ IsHexKey(key2)
    /\ Canonical(key1) = Canonical(key2)
    /\ Weighted(Canonical(key1), 16, 1) < Power(2, cellCount)

\* C23: two Boards reconstructed on the same square shape (side >= 2) from
\* keys that spell the same number, up to leading zeros and letter case,
\* have the same boardBits and the same mine and adjacentMines in every cell.
C23_KeyEquivalence ==
    (/\ first.made
     /\ args.width = args.height
     /\ args.width >= 2
     /\ SameNumber(first.args.boardKey, args.boardKey, args.width * args.height)) =>
        /\ pc = "constructed"
        /\ board.boardBits = first.board.boardBits
        /\ Len(board.cells) = Len(first.board.cells)
        /\ \A i \in 1..Len(board.cells) :
              /\ board.cells[i].mine = first.board.cells[i].mine
              /\ board.cells[i].adjacentMines = first.board.cells[i].adjacentMines

C23_Witness ==
    /\ first.made
    /\ pc = "constructed"
    /\ args.width = 3
    /\ args.height = 3
    /\ first.args.boardKey = <<"b", "B">>
    /\ args.boardKey = <<"0", "B", "b">>
    /\ board.boardBits = <<"0", "1", "0", "1", "1", "1", "0", "1", "1">>
    /\ board.boardBits = first.board.boardBits

\* C24: Reconstruct mode draws nothing from the random source (only the
\* draws of the generating thread have moved it), and a second Board from
\* the same width, height and key equals the first in boardBits, boardKey and
\* cells, whatever the two probabilities and whatever the generating thread
\* did in between.
C24_ReconstructPure ==
    /\ draws = <<>>
    /\ cursor = Len(callers[1].positions)
    /\ (/\ first.made
        /\ first.args.boardKey # NoneKey
        /\ first.args.width = args.width
        /\ first.args.height = args.height
        /\ first.args.boardKey = args.boardKey) =>
           /\ pc = "constructed"
           /\ board.boardBits = first.board.boardBits
           /\ board.boardKey = first.board.boardKey
           /\ board.cells = first.board.cells

C24_Witness ==
    /\ first.made
    /\ pc = "constructed"
    /\ args.boardKey = <<"6">>
    /\ first.args.probability = 0
    /\ args.probability = 2
    /\ Mines = <<FALSE, TRUE, TRUE, FALSE>>
    /\ callers[1].pc = "drawing"
    /\ cursor = 2
    /\ callers[1].args.width * callers[1].args.height = 4

\* The current time of the refresh, between the expirations.
CurrentTime == 1

Expired(token) == token.expiration < CurrentTime

Ended == call.fn = "Tokens" /\ call.state # "running"

\* C25: a call of _refresh returns, and then the list holds no token whose
\* expiration is before the current time and still holds every other token
\* the call found in it, in their order.
C25_RefreshPurges ==
    (Ended /\ call.accessor = "_refresh") =>
        /\ call.state = "returned"
        /\ \A i \in 1..Len(tokens.list) : ~Expired(tokens.list[i])
        /\ tokens.list = SelectSeq(call.before, LAMBDA token : ~Expired(token))

\* The accessors that read the list.
ReadAccessors == {"dict", "new", "__getitem__", "__iter__", "__len__",
                  "__contains__"}

\* C26: every call of dict, new, __getitem__, __iter__, __len__ and
\* __contains__ returns, and the refresh it starts never runs inside itself.
C26_AccessorsTerminate ==
    (call.fn = "Tokens" /\ call.accessor \in ReadAccessors) =>
        /\ Cardinality({i \in 1..Len(frames) : frames[i] = "_refresh"}) <= 1
        /\ call.state \in {"running", "returned"}

\* The token is in order: it decodes, names a subject, is not past its
\* expiry, and the database maps it to an unbanned user of that email.
Authentic ==
    /\ call.decoded.raised = ""
    /\ call.decoded.value.sub # <<>>
    /\ call.decoded.value.exp # <<>> =>
          ~(call.decoded.value.exp[1] < NowTimestamp)
    /\ call.found # <<>>
    /\ call.found[1].email = call.decoded.value.sub[1]
    /\ call.found[1].accessLevel # 0 - 1

\* C27: for a token that is not None, currentUser returns the user the
\* database maps the token to, and only for a token that is in order; in
\* every other case it raises HTTPException with status 401, or with status
\* 403 when that user is banned.
C27_AuthenticationGate ==
    (call.fn = "currentUser" /\ call.token # <<>>) =>
        \/ /\ call.ret.raised = ""
           /\ Authentic
           /\ call.ret.value = call.found
        \/ /\ call.ret.raised = "HTTPException"
           /\ call.ret.status_code \in {401, 403}
           /\ call.ret.status_code = 403 =>
                 (call.found # <<>> /\ banned(call.found[1]))

\* A special character: neither a digit nor a letter.
IsSpecial(char) == ~isdigit(char) /\ ~islower(char) /\ ~isupper(char)

\* The password policy as the responses of _createUser word it.
PasswordPolicy(password) ==
    /\ Len(password) >= MinPasswordLength
    /\ AnyChar({char \in PasswordChars : isdigit(char)}, password)
    /\ AnyChar({char \in PasswordChars : islower(char)}, password)
    /\ AnyChar({char \in PasswordChars : isupper(char)}, password)
    /\ AnyChar({char \in PasswordChars : IsSpecial(char)}, password)

\* C28: _createUser calls database.addUser only for a password of at least
\* 8 characters with a digit, a lowercase letter, an uppercase letter and a
\* special character; for every other password it sets status 400 and does
\* not call database.addUser.
C28_PasswordPolicy ==
    call.fn = "_createUser" =>
        /\ call.addUser # <<>> => PasswordPolicy(call.password)
        /\ ~PasswordPolicy(call.password) =>
              (call.status_code = <<400>> /\ call.addUser = <<>>)

\* The selectors of the request that are set.
Selectors ==
    {i \in 1..3 : <<call.userId, call.uuid, call.email>>[i] # <<>>}

\* C29: a call of _getUser with more than one of userId, uuid and email set
\* raises HTTPException with status 400 and the detail "Only one of userId,
\* uuid, or email may be set.", and does not call database.getUser.
C29_SelectorExclusivity ==
    (call.fn = "_getUser" /\ Cardinality(Selectors) > 1) =>
        /\ call.ret.raised = "HTTPException"
        /\ call.ret.status_code = 400
        /\ call.ret.detail = "Only one of userId, uuid, or email may be set."
        /\ call.lookups = <<>>

====
